---- MODULE Spec2Model ----
(***************************************************************************)
(* State-machine model of bot.py ("Спутник дня"): the SQLite tables, the   *)
(* per-user conversational flags (context.user_data), the clock read by    *)
(* datetime.utcnow() and the handlers that log events, award points,       *)
(* summarise the log and evaluate goals.                                   *)
(*                                                                         *)
(* Time.  An instant is a natural number of ticks.  Two ticks make one     *)
(* second and Day ticks make one day, so an even tick is a whole second    *)
(* (microsecond = 0) and every midnight is a whole second.  The dt columns *)
(* are TEXT written by datetime.isoformat() and compared by SQLite as      *)
(* strings; Iso and StrLe model that format and that comparison.           *)
(*                                                                         *)
(* Handlers.  Each handler function is one action, taken with the update   *)
(* it is written for.  SpecApp alone takes a text message through the      *)
(* handlers as build_app registers them (dispatch_text).                   *)
(***************************************************************************)
EXTENDS Integers, Sequences, FiniteSets, TLC

\* ---------------------------------------------------------------- Config
POINTS_TRAIN == 2
POINTS_SALE == 10
DEFAULT_SALE_THRESHOLD == 0
DEFAULT_TZ == "Asia/Yekaterinburg"
WEEKLY_HOUR == 20

\* ---------------------------------------------------------------- Bounds
\* Telegram user ids that talk to the bot.
Users == {1, 2}
\* Rows in log_sport, log_business and log_spirit together.
MaxRows == 2
\* The same, where goals are stored and evaluated too.
MaxGoalRows == 1
\* Rows in goals.
MaxGoals == 1
\* Last instant of the clock.
MaxClock == 4
\* Pending-input flags set at the same time, over all users.
MaxPending == 1
\* Highest AUTOINCREMENT id handed out by sport_types.
MaxTypeId == 1
\* Largest balance the ledger is driven to by direct add_points calls.
MaxPoints == 4
\* Rows in sport_schedule.
MaxSchedule == 2
\* Highest AUTOINCREMENT id of sport_types where schedules are stored.
MaxSchedTypeId == 2
\* Differences from the initial state where two users both hold data.
MaxChanged == 2
\* Log flags one user holds at a time where several can be pending.
MaxLogFlags == 2
\* Highest AUTOINCREMENT id of sport_types during the onboarding.
MaxOnbTypeId == 1
\* Rows in sport_schedule during the onboarding.
MaxOnbSchedule == 1
\* Ticks in timedelta(days=1).
Day == 2

\* Integers a user types as an amount, a number of minutes or hours, or a
\* threshold; int() accepts a sign.
Amounts == {-1, 0, 1}
\* What a user can type.  isnum/val: whether int() and float() accept the
\* text, and the value; parts: [t.strip() for t in text.split(",") if
\* t.strip()].  "gym" is a word, "," has no non-empty part.
NumName == (-1 :> "-1") @@ (0 :> "0") @@ (1 :> "1")
\* A text that is no schedule line: text.split(";") has fewer than three
\* parts or a day that is no key of dmap.
NoLine == [ok |-> FALSE, typ |-> "", dows |-> <<>>, at |-> ""]
Numerals ==
    {[str |-> NumName[v], isnum |-> TRUE, val |-> v, parts |-> <<NumName[v]>>,
      tzok |-> FALSE, line |-> NoLine] : v \in Amounts}
Words == {[str |-> "gym", isnum |-> FALSE, val |-> 0, parts |-> <<"gym">>,
           tzok |-> FALSE, line |-> NoLine],
          [str |-> ",", isnum |-> FALSE, val |-> 0, parts |-> <<>>,
           tzok |-> FALSE, line |-> NoLine]}
Texts == Numerals \cup Words
\* Timezone names a user types; tzok: pytz.timezone(text) does not raise.
TzTexts ==
    {[str |-> z, isnum |-> FALSE, val |-> 0, parts |-> <<z>>,
      tzok |-> z \in {"Asia/Yekaterinburg", "Europe/Berlin"}, line |-> NoLine] :
        z \in {"Europe/Berlin", "Mars/Phobos"}}
\* Schedule lines "type; days; time" a user types ("pn", "sr" stand for the
\* day names of dmap, 0 and 2); line: typ, dows and at as setup_text parses
\* them.  "soon" is a time AtTime rejects, "xx" a day dmap does not have.
LineTexts ==
    {[str |-> "gym; pn; 19:00", isnum |-> FALSE, val |-> 0,
      parts |-> <<"gym; pn; 19:00">>, tzok |-> FALSE,
      line |-> [ok |-> TRUE, typ |-> "gym", dows |-> <<0>>, at |-> "19:00"]],
     [str |-> "run; pn sr; 7:5", isnum |-> FALSE, val |-> 0,
      parts |-> <<"run; pn sr; 7:5">>, tzok |-> FALSE,
      line |-> [ok |-> TRUE, typ |-> "run", dows |-> <<0, 2>>, at |-> "7:5"]],
     [str |-> "gym; pn; soon", isnum |-> FALSE, val |-> 0,
      parts |-> <<"gym; pn; soon">>, tzok |-> FALSE,
      line |-> [ok |-> TRUE, typ |-> "gym", dows |-> <<0>>, at |-> "soon"]],
     [str |-> "gym; xx; 19:00", isnum |-> FALSE, val |-> 0,
      parts |-> <<"gym; xx; 19:00">>, tzok |-> FALSE, line |-> NoLine]}
\* The days argument of collect_stats (7 and 30 in the source, scaled).
StatDays == {1, 2}
\* The pts argument of a direct add_points call.
AwardPts == {-1, 0, 1, POINTS_TRAIN}
\* Deadlines a user can give, as day numbers (the date 'YYYY-MM-DD').
Dates == {0, 1}
\* Threshold vectors <<sport, business, sales, spirit, points>> of a goal line.
GoalMins == {<<0, 0, 0, 0, 0>>, <<1, 0, 0, 0, 0>>, <<0, 1, 0, 0, 0>>,
             <<0, 0, 1, 0, 0>>, <<0, 0, 0, 1, 0>>, <<0, 0, 0, 0, 1>>,
             <<1, 1, 1, 1, 1>>}
\* Goal lines: well formed (8 fields, integer thresholds, a date), or with a
\* wrong number of fields, a non-integer threshold or an unparseable date.
GoalLines ==
    {[nfields |-> 8, ints |-> TRUE, date |-> TRUE, mins |-> m, deadline |-> d] :
        m \in GoalMins, d \in Dates}
    \cup {[nfields |-> 7, ints |-> TRUE, date |-> TRUE,
           mins |-> <<0, 0, 0, 0, 0>>, deadline |-> 0],
          [nfields |-> 8, ints |-> FALSE, date |-> TRUE,
           mins |-> <<0, 0, 0, 0, 0>>, deadline |-> 0],
          [nfields |-> 8, ints |-> TRUE, date |-> FALSE,
           mins |-> <<0, 0, 0, 0, 0>>, deadline |-> 0]}
\* The values of context.user_data["onb_state"] other than None.
OnbStates == {"ONB_TZ", "ONB_TYPES", "ONB_SCHED", "ONB_THRESH", "ONB_NOTIFY"}
\* What a user types during the onboarding besides the texts above: "gotovo"
\* stands for the word that ends the schedule step, "yes" is one of the
\* answers that switch the notifications on, "no" is any other answer.
OnbWords ==
    {[str |-> w, isnum |-> FALSE, val |-> 0, parts |-> <<w>>, tzok |-> FALSE,
      line |-> NoLine] : w \in {"gotovo", "yes", "no"}}
\* context.user_data keys with a truthy value.
Flags == {"await_cash", "await_sale", "await_sleep", "await_med", "await_read",
          "await_sport_types", "await_threshold", "await_goal", "await_tz",
          "await_schedule"}

VARIABLES
    users,          \* table users: user_id -> [tz, notify, sale_threshold]
    points,         \* table points: user_id -> value
    sport_types,    \* table sport_types: sequence of [id, user_id, name]
    seq_types,      \* sqlite_sequence of sport_types (last AUTOINCREMENT id)
    log_sport,      \* table log_sport: sequence of [user_id, dt, type_id]
    log_business,   \* table log_business
    log_spirit,     \* table log_spirit
    goals,          \* table goals
    user_data,      \* context.user_data: user_id -> truthy flags and onb_state
    keyboards,      \* inline keyboards the bot has sent ("log", "setup")
    menu_tids,      \* sport type ids on the buttons of the sent log menus
    now,            \* datetime.utcnow()
    awarded,        \* history: user_id -> sum of the pts passed to add_points
    reply,          \* what the step just taken returned (NoReply: not modelled)
    sport_schedule, \* table sport_schedule: sequence of [user_id, type_id, dow, at_time]
    jobs            \* app.job_queue: the scheduled jobs, in the order of run_daily

vars == <<users, points, sport_types, seq_types, log_sport, log_business,
          log_spirit, goals, user_data, keyboards, menu_tids, now, awarded,
          reply, sport_schedule, jobs>>

db == <<users, points, sport_types, seq_types, log_sport, log_business,
        log_spirit, goals>>

\* The schedule table and the job queue.
sched == <<sport_schedule, jobs>>

\* ---------------------------------------------------------------- Utils
\* datetime.isoformat(): the seconds field, and the fraction only when the
\* microsecond is not 0.  A string is modelled as the sequence of its fields.
Iso(t) == IF t % 2 = 0 THEN <<t \div 2>> ELSE <<t \div 2, t % 2>>

\* SQLite's comparison of two TEXT values (memcmp, the shorter prefix first).
RECURSIVE StrLe(_, _)
StrLe(a, b) ==
    IF a = <<>> THEN TRUE
    ELSE IF b = <<>> THEN FALSE
    ELSE IF Head(a) < Head(b) THEN TRUE
    ELSE IF Head(a) > Head(b) THEN FALSE
    ELSE StrLe(Tail(a), Tail(b))

RECURSIVE SumSeq(_)
SumSeq(s) == IF s = <<>> THEN 0 ELSE Head(s) + SumSeq(Tail(s))

\* IFNULL(SUM(col), 0) over rows; SELECT ... WHERE is SelectSeq, the rows of
\* a table that satisfy the test, in table order.
Sum(rows, col) == SumSeq([i \in 1..Len(rows) |-> rows[i][col]])

\* IFNULL(SUM(CASE WHEN sale_amount>0 THEN 1 ELSE 0 END), 0) over rows.
SumSalePositive(rows) ==
    SumSeq([i \in 1..Len(rows) |-> IF rows[i].sale_amount > 0 THEN 1 ELSE 0])

NoReply == [op |-> "none"]

RowCount == Len(log_sport) + Len(log_business) + Len(log_spirit)

\* ------------------------------------------------------------ DB helpers
\* ensure_user: INSERT into users and points when the user is unknown.
ensure_user_users(uid) ==
    IF uid \in DOMAIN users THEN users
    ELSE users @@ (uid :> [tz |-> DEFAULT_TZ, notify |-> 1,
                           sale_threshold |-> DEFAULT_SALE_THRESHOLD])

ensure_user_points(uid) ==
    IF uid \in DOMAIN users THEN points ELSE points @@ (uid :> 0)

\* UPDATE points SET value=value+? WHERE user_id=?  (no row: nothing updated)
add_points(P, uid, pts) ==
    [x \in DOMAIN P |-> IF x = uid THEN P[x] + pts ELSE P[x]]

get_points(P, uid) == IF uid \in DOMAIN P THEN P[uid] ELSE 0

get_sale_threshold(uid) ==
    IF uid \in DOMAIN users THEN users[uid].sale_threshold
    ELSE DEFAULT_SALE_THRESHOLD

\* The state after init_db() on an empty database.
Init ==
    /\ users = <<>>
    /\ points = <<>>
    /\ sport_types = <<>>
    /\ seq_types = 0
    /\ log_sport = <<>>
    /\ log_business = <<>>
    /\ log_spirit = <<>>
    /\ goals = <<>>
    /\ user_data = [u \in Users |-> {}]
    /\ keyboards = {}
    /\ menu_tids = {}
    /\ now = 0
    /\ awarded = [u \in Users |-> 0]
    /\ reply = NoReply
    /\ sport_schedule = <<>>
    /\ jobs = <<>>

\* ------------------------------------------------------------- Scheduler
\* pytz.timezone(name) returns a timezone for these names and raises
\* UnknownTimeZoneError for every other one.
ValidTz == {DEFAULT_TZ, "Europe/Berlin"}

\* A NULL in the tz column (row[0] is None).
NullTz == "NULL"

\* get_user_tz: the stored name when there is a row and the name is truthy,
\* else DEFAULT_TZ; DEFAULT_TZ again when pytz.timezone raises.  U is the
\* table users.
get_user_tz(U, uid) ==
    LET tzname == IF uid \in DOMAIN U /\ U[uid].tz \notin {NullTz, ""}
                  THEN U[uid].tz ELSE DEFAULT_TZ
    IN IF tzname \in ValidTz THEN tzname ELSE DEFAULT_TZ

\* hh,mm = map(int, at.split(":")) and time(hour=hh, minute=mm): ok is FALSE
\* when the unpacking, int() or time() raises ValueError.
AtTime(at) ==
    CASE at = "19:00" -> [ok |-> TRUE, hour |-> 19, minute |-> 0]
      [] at = "7:5" -> [ok |-> TRUE, hour |-> 7, minute |-> 5]
      [] OTHER -> [ok |-> FALSE, hour |-> 0, minute |-> 0]

\* get_jobs_by_name(name) and schedule_removal() of each: the queue without
\* the jobs of that name.
remove_jobs(q, name) == SelectSeq(q, LAMBDA j : j.name # name)

\* SELECT s.dow, s.at_time, t.name FROM sport_schedule s JOIN sport_types t
\* ON s.type_id=t.id WHERE s.user_id=?  over the tables T (sport_types) and
\* S (sport_schedule); src, the row of sport_schedule, is a history field.
schedule_rows(T, S, uid) ==
    LET idx == SelectSeq([i \in 1..Len(S) |-> i],
                         LAMBDA i : /\ S[i].user_id = uid
                                    /\ \E k \in 1..Len(T) : T[k].id = S[i].type_id)
    IN [n \in 1..Len(idx) |->
          [src |-> idx[n], dow |-> S[idx[n]].dow, at |-> S[idx[n]].at_time,
           name |-> (CHOOSE t \in {T[k] : k \in 1..Len(T)} :
                        t.id = S[idx[n]].type_id).name]]

\* The job run_daily(callback=remind_sport, ...) adds for one row.
SportJob(uid, tz, row) ==
    [name |-> <<"sport_rem", uid>>, callback |-> "remind_sport", uid |-> uid,
     tz |-> tz, days |-> row.dow, hour |-> AtTime(row.at).hour,
     minute |-> AtTime(row.at).minute, text |-> <<row.name, row.at>>,
     src |-> row.src]

\* The job run_daily(callback=send_weekly_report, ...) adds.
WeeklyJob(uid, tz) ==
    [name |-> <<"weekly", uid>>, callback |-> "send_weekly_report", uid |-> uid,
     tz |-> tz, days |-> 6, hour |-> WEEKLY_HOUR, minute |-> 0, text |-> <<>>,
     src |-> 0]

\* clear_all_jobs(app, uid)
clear_all_jobs_every_user(q, uid) ==
    SelectSeq(q, LAMBDA j : j.name[1] \notin {"sport_rem", "weekly"})

clear_all_jobs(q, uid) ==
    remove_jobs(remove_jobs(q, <<"sport_rem", uid>>), <<"weekly", uid>>)

\* The rows schedule_sport_jobs gets through before a row raises.
good_prefix(rows) ==
    LET bad == {i \in 1..Len(rows) : ~AtTime(rows[i].at).ok}
        n == IF bad = {} THEN Len(rows)
             ELSE (CHOOSE i \in bad : \A k \in bad : i <= k) - 1
    IN SubSeq(rows, 1, n)

\* Whether schedule_sport_jobs raises ValueError on a row.
schedule_sport_jobs_raises(T, S, uid) ==
    \E i \in 1..Len(schedule_rows(T, S, uid)) :
        ~AtTime(schedule_rows(T, S, uid)[i].at).ok

\* schedule_sport_jobs(app, uid): the jobs of the name are removed, then one
\* job is added per row, until a row raises.
schedule_sport_jobs(q, U, T, S, uid) ==
    LET rows == good_prefix(schedule_rows(T, S, uid))
        tz == get_user_tz(U, uid)
    IN remove_jobs(q, <<"sport_rem", uid>>)
       \o [n \in 1..Len(rows) |-> SportJob(uid, tz, rows[n])]

schedule_weekly_report_adding(q, U, uid) ==
    Append(q, WeeklyJob(uid, get_user_tz(U, uid)))

\* schedule_weekly_report(app, uid)
schedule_weekly_report(q, U, uid) ==
    Append(remove_jobs(q, <<"weekly", uid>>), WeeklyJob(uid, get_user_tz(U, uid)))

\* schedule_all_jobs(app, uid): the weekly report is not reached when
\* schedule_sport_jobs raises.
schedule_all_jobs(q, U, T, S, uid) ==
    IF schedule_sport_jobs_raises(T, S, uid)
    THEN schedule_sport_jobs(q, U, T, S, uid)
    ELSE schedule_weekly_report(schedule_sport_jobs(q, U, T, S, uid), U, uid)

\* ------------------------------------------------------------ Setup flow
SetFlag(uid, f) == [user_data EXCEPT ![uid] = @ \cup {f}]
ClearFlag(uid, f) == [user_data EXCEPT ![uid] = @ \ {f}]
\* The flags waiting for a text; await_schedule is never cleared by
\* setup_text, so it is not counted against MaxPending, and onb_state is no
\* flag.
Pending ==
    UNION {{<<u, g>> : g \in user_data[u] \ ({"await_schedule"} \cup OnbStates)} :
             u \in Users}
CanSet(uid, f) == Cardinality(Pending \cup {<<uid, f>>}) <= MaxPending

\* /setup: ensure_user, then the settings keyboard is sent.
setup(uid) ==
    /\ users' = ensure_user_users(uid)
    /\ points' = ensure_user_points(uid)
    /\ keyboards' = keyboards \cup {"setup"}
    /\ reply' = NoReply
    /\ UNCHANGED <<sport_types, seq_types, log_sport, log_business, log_spirit,
                   goals, user_data, menu_tids, now, awarded>>
    /\ UNCHANGED sched

\* The toggle of /notify and of the setup_notify button.  For a user without
\* a row in users cur.fetchone()[0] raises TypeError and nothing changes.
toggle_notify(uid) ==
    IF uid \notin DOMAIN users THEN
       /\ reply' = [op |-> "toggle_notify", uid |-> uid, raised |-> TRUE]
       /\ UNCHANGED <<users, jobs>>
    ELSE
       LET new_val == IF users[uid].notify # 0 THEN 0 ELSE 1
       IN /\ users' = [users EXCEPT ![uid].notify = new_val]
          /\ jobs' = IF new_val = 1
                     THEN schedule_all_jobs(jobs, users, sport_types,
                                            sport_schedule, uid)
                     ELSE clear_all_jobs(jobs, uid)
          /\ reply' = IF new_val = 1
                      THEN [op |-> "schedule_all_jobs", uid |-> uid,
                            raised |-> schedule_sport_jobs_raises(
                                          sport_types, sport_schedule, uid),
                            before |-> jobs]
                      ELSE [op |-> "clear_all_jobs", uid |-> uid,
                            before |-> jobs]

SetupData == {"setup_tz", "setup_sport_types", "setup_schedule", "setup_notify",
              "setup_threshold"}

SetupFlag(data) ==
    CASE data = "setup_tz" -> "await_tz"
      [] data = "setup_sport_types" -> "await_sport_types"
      [] data = "setup_schedule" -> "await_schedule"
      [] OTHER -> "await_threshold"

\* A button of the settings keyboard.
setup_cb(uid, data) ==
    /\ "setup" \in keyboards
    /\ IF data = "setup_notify" THEN
          /\ toggle_notify(uid)
          /\ UNCHANGED user_data
       ELSE
          /\ user_data' = SetFlag(uid, SetupFlag(data))
          /\ reply' = NoReply
          /\ UNCHANGED <<users, jobs>>
    /\ UNCHANGED <<points, sport_types, seq_types, log_sport, log_business,
                   log_spirit, goals, keyboards, menu_tids, now, awarded,
                   sport_schedule>>

\* /notify
notify(uid) ==
    /\ toggle_notify(uid)
    /\ UNCHANGED <<points, sport_types, seq_types, log_sport, log_business,
                   log_spirit, goals, user_data, keyboards, menu_tids, now,
                   awarded, sport_schedule>>

replace_types_all_users(uid, names) ==
    [i \in 1..Len(names) |->
        [id |-> seq_types + i, user_id |-> uid, name |-> names[i]]]

\* DELETE FROM sport_types WHERE user_id=?, then one INSERT per name.
replace_types(uid, names) ==
    SelectSeq(sport_types, LAMBDA r : r.user_id # uid)
    \o [i \in 1..Len(names) |->
          [id |-> seq_types + i, user_id |-> uid, name |-> names[i]]]

\* UPDATE users SET col=? WHERE user_id=?
update_user(uid, col, v) ==
    [x \in DOMAIN users |->
        IF x = uid THEN [users[x] EXCEPT ![col] = v] ELSE users[x]]

\* SELECT id FROM sport_types WHERE user_id=? AND name=?
types_named(uid, typ) ==
    SelectSeq(sport_types, LAMBDA r : r.user_id = uid /\ r.name = typ)

\* Text while await_tz, await_sport_types, await_schedule or await_threshold
\* is set, tested in this order.
setup_text(uid, text) ==
    /\ IF "await_tz" \in user_data[uid] THEN
          IF ~text.tzok THEN
             /\ reply' = NoReply
             /\ UNCHANGED <<users, sport_types, seq_types, user_data,
                            sport_schedule, jobs>>
          ELSE
             /\ users' = update_user(uid, "tz", text.str)
             /\ user_data' = ClearFlag(uid, "await_tz")
             /\ jobs' = schedule_all_jobs(jobs, update_user(uid, "tz", text.str),
                                          sport_types, sport_schedule, uid)
             /\ reply' = [op |-> "schedule_all_jobs", uid |-> uid,
                          raised |-> schedule_sport_jobs_raises(
                                        sport_types, sport_schedule, uid),
                          before |-> jobs]
             /\ UNCHANGED <<sport_types, seq_types, sport_schedule>>
       ELSE IF "await_sport_types" \in user_data[uid] THEN
          /\ sport_types' = replace_types(uid, text.parts)
          /\ seq_types' = seq_types + Len(text.parts)
          /\ user_data' = ClearFlag(uid, "await_sport_types")
          /\ reply' = NoReply
          /\ UNCHANGED <<users, sport_schedule, jobs>>
       ELSE IF "await_schedule" \in user_data[uid] THEN
          IF ~text.line.ok THEN
             /\ reply' = NoReply
             /\ UNCHANGED <<users, sport_types, seq_types, user_data,
                            sport_schedule, jobs>>
          ELSE
             LET row == types_named(uid, text.line.typ)
                 type_id == IF row = <<>> THEN seq_types + 1 ELSE row[1].id
                 T == IF row = <<>>
                      THEN Append(sport_types, [id |-> seq_types + 1,
                                                user_id |-> uid,
                                                name |-> text.line.typ])
                      ELSE sport_types
                 S == sport_schedule
                      \o [i \in 1..Len(text.line.dows) |->
                            [user_id |-> uid, type_id |-> type_id,
                             dow |-> text.line.dows[i],
                             at_time |-> text.line.at]]
             IN /\ sport_types' = T
                /\ seq_types' = IF row = <<>> THEN seq_types + 1 ELSE seq_types
                /\ sport_schedule' = S
                /\ jobs' = schedule_sport_jobs(jobs, users, T, S, uid)
                /\ reply' = [op |-> "schedule_sport_jobs", uid |-> uid,
                             raised |-> schedule_sport_jobs_raises(T, S, uid),
                             before |-> jobs]
                /\ UNCHANGED <<users, user_data>>
       ELSE IF "await_threshold" \in user_data[uid] THEN
          IF ~text.isnum THEN
             /\ reply' = NoReply
             /\ UNCHANGED <<users, sport_types, seq_types, user_data,
                            sport_schedule, jobs>>
          ELSE
             /\ users' = update_user(uid, "sale_threshold", text.val)
             /\ user_data' = ClearFlag(uid, "await_threshold")
             /\ reply' = NoReply
             /\ UNCHANGED <<sport_types, seq_types, sport_schedule, jobs>>
       ELSE
          /\ reply' = NoReply
          /\ UNCHANGED <<users, sport_types, seq_types, user_data,
                         sport_schedule, jobs>>
    /\ UNCHANGED <<points, log_sport, log_business, log_spirit, goals,
                   keyboards, menu_tids, now, awarded>>

\* ------------------------------------------------------------ Onboarding
\* context.user_data.get("onb_state")
onb_state(uid) ==
    IF user_data[uid] \cap OnbStates = {} THEN "None"
    ELSE CHOOSE st \in user_data[uid] \cap OnbStates : TRUE

\* context.user_data["onb_state"] = st
SetOnb(uid, st) ==
    [user_data EXCEPT ![uid] =
        (@ \ OnbStates) \cup (IF st = "None" THEN {} ELSE {st})]

\* /onboard: ensure_user, the state becomes ONB_TZ.
onboard(uid) ==
    /\ users' = ensure_user_users(uid)
    /\ points' = ensure_user_points(uid)
    /\ user_data' = SetOnb(uid, "ONB_TZ")
    /\ reply' = NoReply
    /\ UNCHANGED <<sport_types, seq_types, log_sport, log_business, log_spirit,
                   goals, keyboards, menu_tids, now, awarded>>
    /\ UNCHANGED sched

\* The answers that switch the notifications on.
YesWords == {"yes"}

\* A text message taken by onboard_text: ignored when onb_state is None, else
\* the step of the state.  The schedule step stores the line as setup_text
\* does and registers nothing; the last step registers or clears the jobs
\* and sets the state to None after that, so not when schedule_all_jobs
\* raises.
onboard_text(uid, text) ==
    LET state == onb_state(uid)
    IN
    /\ IF state = "None" THEN
          /\ reply' = NoReply
          /\ UNCHANGED <<users, sport_types, seq_types, user_data,
                         sport_schedule, jobs>>
       ELSE IF state = "ONB_TZ" THEN
          IF ~text.tzok THEN
             /\ reply' = NoReply
             /\ UNCHANGED <<users, sport_types, seq_types, user_data,
                            sport_schedule, jobs>>
          ELSE
             /\ users' = update_user(uid, "tz", text.str)
             /\ user_data' = SetOnb(uid, "ONB_TYPES")
             /\ reply' = NoReply
             /\ UNCHANGED <<sport_types, seq_types, sport_schedule, jobs>>
       ELSE IF state = "ONB_TYPES" THEN
          IF text.parts = <<>> THEN
             /\ reply' = NoReply
             /\ UNCHANGED <<users, sport_types, seq_types, user_data,
                            sport_schedule, jobs>>
          ELSE
             /\ sport_types' = replace_types(uid, text.parts)
             /\ seq_types' = seq_types + Len(text.parts)
             /\ user_data' = SetOnb(uid, "ONB_SCHED")
             /\ reply' = NoReply
             /\ UNCHANGED <<users, sport_schedule, jobs>>
       ELSE IF state = "ONB_SCHED" THEN
          IF text.str = "gotovo" THEN
             /\ user_data' = SetOnb(uid, "ONB_THRESH")
             /\ reply' = NoReply
             /\ UNCHANGED <<users, sport_types, seq_types, sport_schedule, jobs>>
          ELSE IF ~text.line.ok THEN
             /\ reply' = NoReply
             /\ UNCHANGED <<users, sport_types, seq_types, user_data,
                            sport_schedule, jobs>>
          ELSE
             LET row == types_named(uid, text.line.typ)
                 type_id == IF row = <<>> THEN seq_types + 1 ELSE row[1].id
             IN /\ sport_types' =
                      IF row = <<>>
                      THEN Append(sport_types, [id |-> seq_types + 1,
                                                user_id |-> uid,
                                                name |-> text.line.typ])
                      ELSE sport_types
                /\ seq_types' = IF row = <<>> THEN seq_types + 1 ELSE seq_types
                /\ sport_schedule' =
                      sport_schedule
                      \o [i \in 1..Len(text.line.dows) |->
                            [user_id |-> uid, type_id |-> type_id,
                             dow |-> text.line.dows[i],
                             at_time |-> text.line.at]]
                /\ reply' = NoReply
                /\ UNCHANGED <<users, user_data, jobs>>
       ELSE IF state = "ONB_THRESH" THEN
          IF ~text.isnum THEN
             /\ reply' = NoReply
             /\ UNCHANGED <<users, sport_types, seq_types, user_data,
                            sport_schedule, jobs>>
          ELSE
             /\ users' = update_user(uid, "sale_threshold", text.val)
             /\ user_data' = SetOnb(uid, "ONB_NOTIFY")
             /\ reply' = NoReply
             /\ UNCHANGED <<sport_types, seq_types, sport_schedule, jobs>>
       ELSE
          LET turn_on == text.str \in YesWords
              U == update_user(uid, "notify", IF turn_on THEN 1 ELSE 0)
              raises == turn_on /\ schedule_sport_jobs_raises(
                                      sport_types, sport_schedule, uid)
          IN /\ users' = U
             /\ jobs' = IF turn_on
                        THEN schedule_all_jobs(jobs, U, sport_types,
                                               sport_schedule, uid)
                        ELSE clear_all_jobs(jobs, uid)
             /\ reply' = IF turn_on
                         THEN [op |-> "schedule_all_jobs", uid |-> uid,
                               raised |-> raises, before |-> jobs]
                         ELSE [op |-> "clear_all_jobs", uid |-> uid,
                               before |-> jobs]
             /\ user_data' = IF raises THEN user_data ELSE SetOnb(uid, "None")
             /\ UNCHANGED <<sport_types, seq_types, sport_schedule>>
    /\ UNCHANGED <<points, log_sport, log_business, log_spirit, goals,
                   keyboards, menu_tids, now, awarded>>

\* --------------------------------------------------------------- Logging
\* /log: ensure_user, then the menu with one button per sport type of the
\* user and the business and spirit buttons.
log_menu(uid) ==
    /\ users' = ensure_user_users(uid)
    /\ points' = ensure_user_points(uid)
    /\ keyboards' = keyboards \cup {"log"}
    /\ menu_tids' = menu_tids \cup
                    {sport_types[i].id : i \in {j \in 1..Len(sport_types) :
                                                 sport_types[j].user_id = uid}}
    /\ reply' = NoReply
    /\ UNCHANGED <<sport_types, seq_types, log_sport, log_business, log_spirit,
                   goals, user_data, now, awarded>>
    /\ UNCHANGED sched

\* Rows as the INSERT statements write them.  dt is the isoformat() string;
\* ts, kind and qual are history fields that are no columns of the table:
\* the instant of the insert, the kind of event the user logged, and whether
\* the sale was awarded points when it was logged.
SportRow(uid, tid) ==
    [user_id |-> uid, dt |-> Iso(now), type_id |-> tid, ts |-> now]

BizRow(uid, kind, calls, vis, sale, cash, qual) ==
    [user_id |-> uid, dt |-> Iso(now), calls |-> calls, visibility |-> vis,
     sale_amount |-> sale, cash_in |-> cash,
     ts |-> now, kind |-> kind, qual |-> qual]

SpiritRow(uid, kind, sleep, med, read) ==
    [user_id |-> uid, dt |-> Iso(now), sleep_hours |-> sleep,
     meditation_min |-> med, reading_min |-> read, ts |-> now, kind |-> kind]

insert_row_overwriting(tbl, row) == <<row>>

\* INSERT INTO a log table: the row is added after the rows the table has.
insert_row(tbl, row) == Append(tbl, row)

LogData == {"log_sport", "log_biz:call", "log_biz:vis", "log_biz:cash",
            "log_biz:sale", "log_spi:sleep", "log_spi:med", "log_spi:read"}

AwaitOf(data) ==
    CASE data = "log_biz:cash" -> "await_cash"
      [] data = "log_biz:sale" -> "await_sale"
      [] data = "log_spi:sleep" -> "await_sleep"
      [] data = "log_spi:med" -> "await_med"
      [] OTHER -> "await_read"

\* A button of a log menu, pressed by any user who sees the menu; data
\* "log_sport" stands for "log_sport:<tid>".
log_cb(uid, data, tid) ==
    /\ "log" \in keyboards
    /\ IF data = "log_sport" THEN
          /\ tid \in menu_tids
          /\ log_sport' = insert_row(log_sport, SportRow(uid, tid))
          /\ points' = add_points(points, uid, POINTS_TRAIN)
          /\ awarded' = [awarded EXCEPT ![uid] = @ + POINTS_TRAIN]
          /\ UNCHANGED <<log_business, user_data>>
       ELSE IF data = "log_biz:call" THEN
          /\ log_business' = insert_row(log_business,
                                    BizRow(uid, "call", 1, 0, 0, 0, FALSE))
          /\ UNCHANGED <<log_sport, points, awarded, user_data>>
       ELSE IF data = "log_biz:vis" THEN
          /\ log_business' = insert_row(log_business,
                                    BizRow(uid, "vis", 0, 1, 0, 0, FALSE))
          /\ UNCHANGED <<log_sport, points, awarded, user_data>>
       ELSE
          /\ user_data' = SetFlag(uid, AwaitOf(data))
          /\ UNCHANGED <<log_sport, log_business, points, awarded>>
    /\ reply' = NoReply
    /\ UNCHANGED <<users, sport_types, seq_types, log_spirit, goals, keyboards,
                   menu_tids, now>>
    /\ UNCHANGED sched

\* The first of await_cash, await_sale, await_sleep, await_med, await_read
\* that is set takes the text.
LogFlag(uid) ==
    LET ud == user_data[uid]
    IN IF "await_cash" \in ud THEN "await_cash"
       ELSE IF "await_sale" \in ud THEN "await_sale"
       ELSE IF "await_sleep" \in ud THEN "await_sleep"
       ELSE IF "await_med" \in ud THEN "await_med"
       ELSE IF "await_read" \in ud THEN "await_read"
       ELSE "none"

log_text(uid, text) ==
    LET f == LogFlag(uid)
        v == text.val
    IN
    /\ IF f = "none" \/ ~text.isnum THEN
          UNCHANGED <<log_business, log_spirit, points, awarded, user_data>>
       ELSE
          /\ user_data' = ClearFlag(uid, f)
          /\ IF f = "await_cash" THEN
                /\ log_business' = insert_row(log_business,
                                          BizRow(uid, "cash", 0, 0, 0, v, FALSE))
                /\ UNCHANGED <<log_spirit, points, awarded>>
             ELSE IF f = "await_sale" THEN
                IF v >= get_sale_threshold(uid) THEN
                   /\ log_business' = insert_row(log_business,
                                             BizRow(uid, "sale", 0, 0, v, 0, TRUE))
                   /\ points' = add_points(points, uid, POINTS_SALE)
                   /\ awarded' = [awarded EXCEPT ![uid] = @ + POINTS_SALE]
                   /\ UNCHANGED log_spirit
                ELSE
                   /\ log_business' = insert_row(log_business,
                                             BizRow(uid, "sale", 0, 0, v, 0, FALSE))
                   /\ UNCHANGED <<log_spirit, points, awarded>>
             ELSE
                /\ log_spirit' = insert_row(log_spirit,
                      IF f = "await_sleep" THEN SpiritRow(uid, "sleep", v, 0, 0)
                      ELSE IF f = "await_med" THEN SpiritRow(uid, "med", 0, v, 0)
                      ELSE SpiritRow(uid, "read", 0, 0, v))
                /\ UNCHANGED <<log_business, points, awarded>>
    /\ reply' = NoReply
    /\ UNCHANGED <<users, sport_types, seq_types, log_sport, goals, keyboards,
                   menu_tids, now>>
    /\ UNCHANGED sched

\* ----------------------------------------------------------------- Stats
\* collect_stats(uid, days): three SELECTs over the rows of uid with dt>=since.
collect_stats(uid, days) ==
    LET since == Iso(now - days * Day)
        sp == SelectSeq(log_sport, LAMBDA r : r.user_id = uid /\ StrLe(since, r.dt))
        bz == SelectSeq(log_business, LAMBDA r : r.user_id = uid /\ StrLe(since, r.dt))
        si == SelectSeq(log_spirit, LAMBDA r : r.user_id = uid /\ StrLe(since, r.dt))
    IN [sport_cnt |-> Len(sp),
        calls |-> Sum(bz, "calls"),
        vis |-> Sum(bz, "visibility"),
        sales_n |-> SumSalePositive(bz),
        sales_sum |-> Sum(bz, "sale_amount"),
        cash_sum |-> Sum(bz, "cash_in"),
        sleep |-> Sum(si, "sleep_hours"),
        med |-> Sum(si, "meditation_min"),
        read |-> Sum(si, "reading_min"),
        points |-> get_points(points, uid)]

\* A variant that registers the user first, as the /stats handler does.
call_collect_stats_registering(uid, days) ==
    /\ reply' = [op |-> "collect_stats", uid |-> uid, days |-> days, at |-> now,
                 out |-> collect_stats(uid, days)]
    /\ users' = ensure_user_users(uid)
    /\ points' = ensure_user_points(uid)
    /\ UNCHANGED <<sport_types, seq_types, log_sport, log_business, log_spirit,
                   goals, user_data, keyboards, menu_tids, now, awarded>>
    /\ UNCHANGED sched

\* A call of collect_stats, as _send_report_card makes it for /report and
\* the weekly report.
call_collect_stats(uid, days) ==
    /\ reply' = [op |-> "collect_stats", uid |-> uid, days |-> days, at |-> now,
                 out |-> collect_stats(uid, days)]
    /\ UNCHANGED <<db, user_data, keyboards, menu_tids, now, awarded>>
    /\ UNCHANGED sched

\* ----------------------------------------------------------------- Goals
\* /addgoal: the format is shown and await_goal is set.
addgoal(uid) ==
    /\ user_data' = SetFlag(uid, "await_goal")
    /\ reply' = NoReply
    /\ UNCHANGED <<db, keyboards, menu_tids, now, awarded>>
    /\ UNCHANGED sched

\* The goal line: 8 fields, five integers and a date, else nothing is stored.
addgoal_text(uid, line) ==
    /\ IF "await_goal" \notin user_data[uid] \/ line.nfields # 8
          \/ ~line.ints \/ ~line.date
       THEN UNCHANGED <<goals, user_data>>
       ELSE /\ Len(goals) < MaxGoals
            /\ goals' = Append(goals,
                  [id |-> Len(goals) + 1, user_id |-> uid,
                   sport_min |-> line.mins[1], business_min |-> line.mins[2],
                   sales_min |-> line.mins[3], spirit_min |-> line.mins[4],
                   points_min |-> line.mins[5], deadline |-> line.deadline,
                   created_at |-> Iso(now), created_ts |-> now])
            /\ user_data' = ClearFlag(uid, "await_goal")
    /\ reply' = NoReply
    /\ UNCHANGED <<users, points, sport_types, seq_types, log_sport,
                   log_business, log_spirit, keyboards, menu_tids, now,
                   awarded>>
    /\ UNCHANGED sched

\* datetime.strptime(deadline, "%Y-%m-%d"): midnight at the start of the day.
deadline_dt(g) == g.deadline * Day

\* A variant without the day of grace.
goal_expired_nograce(g) == now > deadline_dt(g)

\* now > deadline_dt + timedelta(days=1)
goal_expired(g) == now > deadline_dt(g) + Day

\* A variant whose window trails the evaluation instead of starting at the
\* creation of the goal.
in_goal_window_trailing(g, r) ==
    StrLe(Iso(now - 1), r.dt) /\ StrLe(r.dt, Iso(deadline_dt(g)))

\* dt>=created AND dt<=deadline_dt.isoformat()
in_goal_window(g, r) ==
    StrLe(g.created_at, r.dt) /\ StrLe(r.dt, Iso(deadline_dt(g)))

\* sport_cnt, business_actions, sales_n, spirit_n and pts of one goal.
goal_measured(g) ==
    LET sp == SelectSeq(log_sport,
                    LAMBDA r : r.user_id = g.user_id /\ in_goal_window(g, r))
        bz == SelectSeq(log_business,
                    LAMBDA r : r.user_id = g.user_id /\ in_goal_window(g, r))
        si == SelectSeq(log_spirit,
                    LAMBDA r : /\ r.user_id = g.user_id
                               /\ in_goal_window(g, r)
                               /\ (r.sleep_hours > 0 \/ r.meditation_min > 0
                                   \/ r.reading_min > 0))
    IN [sport |-> Len(sp),
        business |-> Sum(bz, "calls") + Sum(bz, "visibility"),
        sales |-> SumSalePositive(bz),
        spirit |-> Len(si),
        points |-> get_points(points, g.user_id)]

\* A variant whose points test is strict.
goal_ok_strict(g, m) ==
    /\ m.sport >= g.sport_min
    /\ m.business >= g.business_min
    /\ m.sales >= g.sales_min
    /\ m.spirit >= g.spirit_min
    /\ m.points > g.points_min

\* ok = (sport_cnt>=smin) and ... and (pts>=pmin)
goal_ok(g, m) ==
    /\ m.sport >= g.sport_min
    /\ m.business >= g.business_min
    /\ m.sales >= g.sales_min
    /\ m.spirit >= g.spirit_min
    /\ m.points >= g.points_min

Short(dim, cur, req) ==
    IF cur < req THEN <<[dim |-> dim, cur |-> cur, req |-> req]>> ELSE <<>>

goal_miss(g, m) ==
    Short("sport", m.sport, g.sport_min)
    \o Short("business", m.business, g.business_min)
    \o Short("sales", m.sales, g.sales_min)
    \o Short("spirit", m.spirit, g.spirit_min)
    \o Short("points", m.points, g.points_min)

\* The loop of claim over the goals of uid: the eligible list, the missing
\* list (a goal is named by its id, which stands for its title and reward)
\* and the values measured for each goal that is not skipped.
claim_result(uid) ==
    LET rows == SelectSeq(goals, LAMBDA g : g.user_id = uid)
        live == SelectSeq(rows, LAMBDA g : ~goal_expired(g))
        good == SelectSeq(live, LAMBDA g : goal_ok(g, goal_measured(g)))
        bad == SelectSeq(live, LAMBDA g : ~goal_ok(g, goal_measured(g)))
    IN [op |-> "claim", uid |-> uid, at |-> now, rows |-> Len(rows),
        eligible |-> [i \in 1..Len(good) |-> good[i].id],
        missing |-> [i \in 1..Len(bad) |->
                       [id |-> bad[i].id,
                        miss |-> goal_miss(bad[i], goal_measured(bad[i]))]],
        measured |-> [i \in 1..Len(live) |->
                        [id |-> live[i].id, m |-> goal_measured(live[i])]]]

Ids(s) == {s[i] : i \in 1..Len(s)}
MissingIds(r) == {r.missing[i].id : i \in 1..Len(r.missing)}

\* /claim: the two lists are sent, nothing is stored.
claim(uid) ==
    /\ reply' = claim_result(uid)
    /\ UNCHANGED <<db, user_data, keyboards, menu_tids, now, awarded>>
    /\ UNCHANGED sched

\* ---------------------------------------------------------------- Ledger
\* A direct call add_points(uid, pts); nothing is raised and nothing returned.
award(uid, pts) ==
    /\ get_points(points, uid) + pts \in (0 - MaxPoints)..MaxPoints
    /\ awarded[uid] + pts \in (0 - MaxPoints)..MaxPoints
    /\ points' = add_points(points, uid, pts)
    /\ awarded' = [awarded EXCEPT ![uid] = @ + pts]
    /\ reply' = [op |-> "add_points", uid |-> uid, pts |-> pts,
                 raised |-> "none", before |-> get_points(points, uid)]
    /\ UNCHANGED <<users, sport_types, seq_types, log_sport, log_business,
                   log_spirit, goals, user_data, keyboards, menu_tids, now>>
    /\ UNCHANGED sched

\* The clock moves forward.
Tick ==
    /\ \E t \in (now + 1)..MaxClock : now' = t
    /\ reply' = NoReply
    /\ UNCHANGED <<db, user_data, keyboards, menu_tids, awarded>>
    /\ UNCHANGED sched

\* ---------------------------------------------------------------- Firing
\* The job queue runs remind_sport for job i; sent: send_message returns.  The
\* exception of send_message is passed over.
remind_sport(i, sent) ==
    /\ i \in 1..Len(jobs)
    /\ jobs[i].callback = "remind_sport"
    /\ reply' = [op |-> "remind_sport", uid |-> jobs[i].uid, job |-> i,
                 calls |-> 1, delivered |-> sent, raised |-> FALSE]
    /\ UNCHANGED <<db, user_data, keyboards, menu_tids, now, awarded, sched>>

\* The job queue runs send_weekly_report for job i, that is _send_report_card:
\* render_card (rendered: it returns), send_photo (photo: it returns) and,
\* when send_photo raised, send_message (message: it returns).  Only the
\* exception of send_photo is caught.
send_weekly_report(i, rendered, photo, message) ==
    /\ i \in 1..Len(jobs)
    /\ jobs[i].callback = "send_weekly_report"
    /\ reply' = [op |-> "send_weekly_report", uid |-> jobs[i].uid, job |-> i,
                 calls |-> IF ~rendered THEN 0 ELSE IF photo THEN 1 ELSE 2,
                 delivered |-> rendered /\ (photo \/ message),
                 raised |-> ~rendered \/ (~photo /\ ~message)]
    /\ UNCHANGED <<db, user_data, keyboards, menu_tids, now, awarded, sched>>

\* ----------------------------------------------------------------- Crash
\* The two effects of logging a training (log_cb) and of logging a sale
\* (log_text), in the order of the statements: the INSERT is committed, then
\* add_points runs.
log_sport_order_award_first == <<"add_points", "insert">>

log_sport_order == <<"insert", "add_points">>
log_sale_order == <<"insert", "add_points">>

\* The effects a handler has completed when the process stops after k of
\* them.
effects_done(order, k) == {order[i] : i \in 1..k}

\* What a restart of the process leaves: the tables, and the keyboards in the
\* chats; context.user_data and the job queue are memory of the process.
restart ==
    /\ user_data' = [u \in Users |-> {}]
    /\ jobs' = <<>>
    /\ UNCHANGED <<users, sport_types, seq_types, goals, keyboards, menu_tids,
                   now, sport_schedule>>

\* log_cb on a log_sport button, with the process stopping after k effects.
log_cb_crash(uid, tid, k) ==
    LET done == effects_done(log_sport_order, k)
    IN /\ "log" \in keyboards
       /\ tid \in menu_tids
       /\ log_sport' = IF "insert" \in done
                       THEN insert_row(log_sport, SportRow(uid, tid))
                       ELSE log_sport
       /\ points' = IF "add_points" \in done
                    THEN add_points(points, uid, POINTS_TRAIN) ELSE points
       /\ awarded' = IF "add_points" \in done
                     THEN [awarded EXCEPT ![uid] = @ + POINTS_TRAIN]
                     ELSE awarded
       /\ reply' = [op |-> "crash", uid |-> uid, done |-> done]
       /\ UNCHANGED <<log_business, log_spirit>>
       /\ restart

\* log_text taking the amount of a sale that reaches the threshold, with the
\* process stopping after k effects.
log_text_crash(uid, text, k) ==
    LET done == effects_done(log_sale_order, k)
    IN /\ LogFlag(uid) = "await_sale"
       /\ text.isnum
       /\ text.val >= get_sale_threshold(uid)
       /\ log_business' = IF "insert" \in done
                          THEN insert_row(log_business,
                                  BizRow(uid, "sale", 0, 0, text.val, 0, FALSE))
                          ELSE log_business
       /\ points' = IF "add_points" \in done
                    THEN add_points(points, uid, POINTS_SALE) ELSE points
       /\ awarded' = IF "add_points" \in done
                     THEN [awarded EXCEPT ![uid] = @ + POINTS_SALE]
                     ELSE awarded
       /\ reply' = [op |-> "crash", uid |-> uid, done |-> done]
       /\ UNCHANGED <<log_sport, log_spirit>>
       /\ restart

\* ------------------------------------------------------- Specifications
\* Settings and logging from an empty database, at one instant.  A list of
\* sport types is typed as words, a threshold and a logged value as any text.
\* The bound MaxPending on the flags waiting for a text, for the handlers
\* that set one.
MaySetup(u, d) ==
    IF d = "setup_notify" THEN TRUE ELSE CanSet(u, SetupFlag(d))
MayLog(u, d) ==
    IF d \in {"log_sport", "log_biz:call", "log_biz:vis"} THEN TRUE
    ELSE CanSet(u, AwaitOf(d))
MayAddgoal(u) == CanSet(u, "await_goal")

Next ==
    \/ \E u \in Users : setup(u)
    \/ \E u \in Users, d \in {"setup_sport_types", "setup_threshold"} :
          MaySetup(u, d) /\ setup_cb(u, d)
    \/ \E u \in Users, t \in Texts :
          /\ "await_sport_types" \in user_data[u] => t \in Words
          /\ setup_text(u, t)
          /\ seq_types' <= MaxTypeId
    \/ \E u \in Users : log_menu(u)
    \/ \E u \in Users, d \in LogData, tid \in 1..MaxTypeId :
          RowCount < MaxRows /\ MayLog(u, d) /\ log_cb(u, d, tid)
    \/ \E u \in Users, t \in Texts :
          RowCount < MaxRows /\ log_text(u, t)

Spec == Init /\ [][Next]_vars

\* The ledger alone: users register and add_points is called with any pts.
NextLedger ==
    \/ \E u \in Users : setup(u)
    \/ \E u \in Users, p \in AwardPts : award(u, p)

SpecLedger == Init /\ [][NextLedger]_vars

\* A state Spec reaches (ReachConfigured): user 1 has run /setup, stored the
\* sport type "gym" and opened the log menu; user 2 has not talked to the
\* bot yet and sees the menu.
InitConfigured ==
    /\ users = (1 :> [tz |-> DEFAULT_TZ, notify |-> 1,
                      sale_threshold |-> DEFAULT_SALE_THRESHOLD])
    /\ points = (1 :> 0)
    /\ sport_types = <<[id |-> 1, user_id |-> 1, name |-> "gym"]>>
    /\ seq_types = 1
    /\ log_sport = <<>>
    /\ log_business = <<>>
    /\ log_spirit = <<>>
    /\ goals = <<>>
    /\ user_data = [u \in Users |-> {}]
    /\ keyboards = {"setup", "log"}
    /\ menu_tids = {1}
    /\ now = 0
    /\ awarded = [u \in Users |-> 0]
    /\ reply = NoReply
    /\ sport_schedule = <<>>
    /\ jobs = <<>>

ReachConfigured == ~InitConfigured

\* Logging over time and calls of collect_stats.
NextStats ==
    \/ Tick
    \/ \E u \in Users, d \in LogData, tid \in 1..MaxTypeId :
          RowCount < MaxRows /\ MayLog(u, d) /\ log_cb(u, d, tid)
    \/ \E u \in Users, t \in Texts :
          RowCount < MaxRows /\ log_text(u, t)
    \/ \E u \in Users, d \in StatDays : call_collect_stats(u, d)

SpecStats == InitConfigured /\ [][NextStats]_vars

\* addgoal_text returns at once when await_goal is not set, whatever the
\* line: one line stands for all of them then.
LinesFor(u) ==
    IF "await_goal" \in user_data[u] THEN GoalLines
    ELSE {CHOOSE l \in GoalLines : TRUE}

\* Goals, logging over time and /claim.
NextGoals ==
    \/ Tick
    \/ \E u \in Users : MayAddgoal(u) /\ addgoal(u)
    \/ \E u \in Users, l \in GoalLines :
          l \in LinesFor(u) /\ addgoal_text(u, l)
    \/ \E u \in Users, d \in LogData, tid \in 1..MaxTypeId :
          RowCount < MaxGoalRows /\ MayLog(u, d) /\ log_cb(u, d, tid)
    \/ \E u \in Users, t \in Texts :
          RowCount < MaxGoalRows /\ log_text(u, t)
    \/ \E u \in Users : claim(u)

SpecGoals == InitConfigured /\ [][NextGoals]_vars

\* What a user types while settings are changed: a timezone, a list of sport
\* types or a schedule line.
JobTexts ==
    TzTexts \cup LineTexts \cup {t \in Words : t.str = "gym"}

\* Settings, schedules, notifications and the firing of the jobs.
NextJobs ==
    \/ \E u \in Users, d \in SetupData \ {"setup_threshold"} :
          MaySetup(u, d) /\ setup_cb(u, d)
    \/ \E u \in Users, t \in JobTexts :
          /\ setup_text(u, t)
          /\ seq_types' <= MaxSchedTypeId
          /\ Len(sport_schedule') <= MaxSchedule
    \/ \E u \in Users : notify(u)
    \/ \E i \in 1..Len(jobs), sent \in BOOLEAN : remind_sport(i, sent)
    \/ \E i \in 1..Len(jobs), r \in BOOLEAN, p \in BOOLEAN, m \in BOOLEAN :
          send_weekly_report(i, r, p, m)

SpecJobs == InitConfigured /\ [][NextJobs]_vars

\* What a user types during the onboarding.
OnbTexts ==
    TzTexts \cup Words \cup OnbWords
    \cup {t \in LineTexts : t.line.typ # "run"}
    \cup {t \in Numerals : t.val = 1}

\* The guided onboarding, the notification switches beside it.
NextOnboard ==
    \/ \E u \in Users : onboard(u)
    \/ \E u \in Users, t \in OnbTexts :
          /\ onboard_text(u, t)
          /\ seq_types' <= MaxOnbTypeId
          /\ Len(sport_schedule') <= MaxOnbSchedule
    \/ \E u \in Users : notify(u)
    \/ \E u \in Users : setup(u)
    \/ \E u \in Users : setup_cb(u, "setup_notify")

SpecOnboard == Init /\ [][NextOnboard]_vars

\* The values of users.tz that get_user_tz does not take as a timezone: NULL,
\* the empty string and a name pytz does not know.
StoredTz == {NullTz, "", "Mars/Phobos"}

\* The configured state with such a value stored for user 1.
InitTz ==
    /\ \E z \in StoredTz :
          users = (1 :> [tz |-> z, notify |-> 1,
                         sale_threshold |-> DEFAULT_SALE_THRESHOLD])
    /\ points = (1 :> 0)
    /\ sport_types = <<[id |-> 1, user_id |-> 1, name |-> "gym"]>>
    /\ seq_types = 1
    /\ log_sport = <<>>
    /\ log_business = <<>>
    /\ log_spirit = <<>>
    /\ goals = <<>>
    /\ user_data = [u \in Users |-> {}]
    /\ keyboards = {"setup", "log"}
    /\ menu_tids = {1}
    /\ now = 0
    /\ awarded = [u \in Users |-> 0]
    /\ reply = NoReply
    /\ sport_schedule = <<>>
    /\ jobs = <<>>

\* Schedules and notifications of users whose timezone is not usable.
NextTz ==
    \/ \E u \in Users, d \in {"setup_schedule", "setup_notify"} :
          MaySetup(u, d) /\ setup_cb(u, d)
    \/ \E u \in Users, t \in LineTexts :
          /\ setup_text(u, t)
          /\ seq_types' <= MaxSchedTypeId
          /\ Len(sport_schedule') <= MaxSchedule
    \/ \E u \in Users : notify(u)

SpecTz == InitTz /\ [][NextTz]_vars

\* One text of each kind setup_text and log_text take, and one goal line.
OwnerTexts ==
    {t \in Texts \cup TzTexts \cup LineTexts :
        t.str \in {"1", "gym", "Europe/Berlin", "gym; pn; 19:00"}}
OwnerLines ==
    {l \in GoalLines : l.nfields = 8 /\ l.ints /\ l.date /\ l.deadline = 1
                        /\ l.mins = <<1, 1, 1, 1, 1>>}

\* What the handlers run for the update of user a, whatever the input.
StepOf(a) ==
    \/ setup(a)
    \/ \E d \in SetupData : setup_cb(a, d)
    \/ \E t \in OwnerTexts : setup_text(a, t)
    \/ notify(a)
    \/ \E d \in LogData, tid \in 1..MaxSchedTypeId : log_cb(a, d, tid)
    \/ \E t \in OwnerTexts : log_text(a, t)
    \/ addgoal(a)
    \/ \E l \in OwnerLines : addgoal_text(a, l)

\* A state the program reaches from InitConfigured: user 1 has stored a
\* schedule line, user 2 has run /setup, stored a schedule line and logged a
\* training, and both have sent /notify twice.  Both hold settings, an
\* activity type, a schedule entry, a reminder and a weekly report.
InitOwners ==
    /\ users = [u \in Users |-> [tz |-> DEFAULT_TZ, notify |-> 1,
                                  sale_threshold |-> DEFAULT_SALE_THRESHOLD]]
    /\ points = (1 :> 0) @@ (2 :> POINTS_TRAIN)
    /\ sport_types = [u \in Users |-> [id |-> u, user_id |-> u, name |-> "gym"]]
    /\ seq_types = 2
    /\ log_sport = <<[user_id |-> 2, type_id |-> 1, dt |-> Iso(0), ts |-> 0]>>
    /\ log_business = <<>>
    /\ log_spirit = <<>>
    /\ goals = <<>>
    /\ user_data = [u \in Users |-> {"await_schedule"}]
    /\ keyboards = {"setup", "log"}
    /\ menu_tids = {1}
    /\ now = 0
    /\ awarded = (1 :> 0) @@ (2 :> POINTS_TRAIN)
    /\ reply = NoReply
    /\ sport_schedule = [u \in Users |-> [user_id |-> u, type_id |-> u,
                                           dow |-> 0, at_time |-> "19:00"]]
    /\ jobs = schedule_all_jobs(
                 schedule_all_jobs(<<>>, users, sport_types, sport_schedule, 1),
                 users, sport_types, sport_schedule, 2)

\* How far a state is from InitOwners: flags waiting for a text, rows, goals,
\* schedule entries and type ids added, timezones changed and notifications
\* switched off.
Changed ==
    Cardinality(Pending) + (RowCount - 1) + Len(goals)
    + (Len(sport_schedule) - 2) + (seq_types - 2)
    + Cardinality({u \in DOMAIN users : users[u].tz # DEFAULT_TZ})
    + Cardinality({u \in DOMAIN users : users[u].notify = 0})

\* Every kind of operation, by two users who both hold data.
NextOwners ==
    \/ \E u \in Users : setup(u) /\ Changed' <= MaxChanged
    \/ \E u \in Users, d \in SetupData :
          MaySetup(u, d) /\ setup_cb(u, d) /\ Changed' <= MaxChanged
    \/ \E u \in Users, t \in OwnerTexts :
          setup_text(u, t) /\ Changed' <= MaxChanged
    \/ \E u \in Users : notify(u) /\ Changed' <= MaxChanged
    \/ \E u \in Users, d \in LogData, tid \in 1..MaxSchedTypeId :
          MayLog(u, d) /\ log_cb(u, d, tid) /\ Changed' <= MaxChanged
    \/ \E u \in Users, t \in OwnerTexts :
          log_text(u, t) /\ Changed' <= MaxChanged
    \/ \E u \in Users : MayAddgoal(u) /\ addgoal(u) /\ Changed' <= MaxChanged
    \/ \E u \in Users, l \in OwnerLines :
          addgoal_text(u, l) /\ Changed' <= MaxChanged

SpecOwners == InitOwners /\ [][NextOwners]_vars

\* Every kind of command, /claim included, by two users who hold data.
NextEvents ==
    \/ NextOwners
    \/ \E u \in Users : claim(u)

SpecEvents == InitOwners /\ [][NextEvents]_vars

\* Logging with a process that can stop between the INSERT of an event and
\* the award, and be started again.
NextCrash ==
    \/ \E u \in Users : setup(u)
    \/ \E u \in Users, d \in {"log_sport", "log_biz:sale"}, tid \in 1..MaxTypeId :
          RowCount < MaxRows /\ MayLog(u, d) /\ log_cb(u, d, tid)
    \/ \E u \in Users, t \in Numerals :
          RowCount < MaxRows /\ log_text(u, t)
    \/ \E u \in Users, tid \in 1..MaxTypeId, k \in 0..1 :
          RowCount < MaxRows /\ log_cb_crash(u, tid, k)
    \/ \E u \in Users, t \in Numerals, k \in 0..1 :
          RowCount < MaxRows /\ log_text_crash(u, t, k)

SpecCrash == InitConfigured /\ [][NextCrash]_vars

\* The log menu where a user presses a second button before the value asked
\* for by the first one is typed.
LogFlags == {"await_cash", "await_sale", "await_sleep", "await_med",
             "await_read"}
MayLogAgain(u, d) ==
    Cardinality((user_data[u] \cap LogFlags) \cup {AwaitOf(d)}) <= MaxLogFlags

NextMenu ==
    \/ \E u \in Users, d \in LogData \ {"log_sport", "log_biz:call", "log_biz:vis"} :
          MayLogAgain(u, d) /\ log_cb(u, d, 1)
    \/ \E u \in Users, t \in Texts :
          RowCount < MaxGoalRows /\ log_text(u, t)

SpecMenu == InitConfigured /\ [][NextMenu]_vars

\* -------------------------------------------------------------- Dispatch
\* The MessageHandlers of build_app in the order of add_handler; all four
\* have the filter filters.TEXT & ~filters.COMMAND and the default group.
TextHandlers == <<"onboard_text", "setup_text", "log_text", "addgoal_text">>

\* A goal line as onboard_text, setup_text and log_text read it: no number,
\* no timezone, no schedule line (it has no ";"), one non-empty part.
GoalText == [str |-> "goal line", isnum |-> FALSE, val |-> 0,
             parts |-> <<"goal line">>, tzok |-> FALSE, line |-> NoLine]
\* Any other text as addgoal_text reads it: text.split("|") has one part.
NoGoal == [nfields |-> 1, ints |-> FALSE, date |-> FALSE,
           mins |-> <<0, 0, 0, 0, 0>>, deadline |-> 0]
\* Text messages: the text as the setup and log handlers parse it and the
\* same text as addgoal_text parses it.
Messages ==
    {[text |-> t, goal |-> NoGoal] :
        t \in {x \in Numerals : x.val = 1} \cup {x \in TzTexts : x.tzok}
              \cup {x \in LineTexts : x.str = "gym; pn; 19:00"}}
    \cup {[text |-> GoalText, goal |-> l] :
            l \in {x \in GoalLines : x.mins = <<1, 0, 0, 0, 0>> /\ x.deadline = 1}}

\* The callback of a text handler.
run_text_handler(h, uid, m) ==
    CASE h = "onboard_text" -> onboard_text(uid, m.text)
      [] h = "setup_text" -> setup_text(uid, m.text)
      [] h = "log_text" -> log_text(uid, m.text)
      [] OTHER -> addgoal_text(uid, m.goal)

\* Application.process_update for a non-command text: in a group the first
\* handler whose filter matches takes the update and no other handler of
\* the group is tried.  The filters of the four handlers are the same.
dispatch_text(uid, m) == run_text_handler(TextHandlers[1], uid, m)

\* The bot as build_app assembles it: commands, buttons, text messages.
NextApp ==
    \/ \E u \in Users : onboard(u)
    \/ \E u \in Users, d \in SetupData \ {"setup_notify", "setup_sport_types"} :
          MaySetup(u, d) /\ setup_cb(u, d)
    \/ \E u \in Users : MayLog(u, "log_biz:sale") /\ log_cb(u, "log_biz:sale", 1)
    \/ \E u \in Users : MayAddgoal(u) /\ addgoal(u)
    \/ \E u \in Users, m \in Messages :
          /\ dispatch_text(u, m)
          /\ seq_types' <= MaxOnbTypeId
          /\ Len(sport_schedule') <= MaxOnbSchedule

SpecApp == InitConfigured /\ [][NextApp]_vars

\* ================================================================ Claims
\* What a user logged, read from the history fields of the rows.
SportLogged(ls, u) == Len(SelectSeq(ls, LAMBDA r : r.user_id = u))
QualSales(lb, u) == Len(SelectSeq(lb, LAMBDA r : r.user_id = u /\ r.qual))
LastRow(tbl) == tbl[Len(tbl)]

\* C1: for every user, over every sequence of awards made by sport and sale
\* logging, the balance get_points returns never decreases from one step to
\* the next and always equals the sum of the amounts awarded to the user.
C1_BalanceIsSumOfAwards ==
    [][\A u \in Users :
          /\ get_points(points', u) >= get_points(points, u)
          /\ get_points(points', u) = awarded'[u]]_vars

\* C2: the balance of a user changes only when the user logs a SPORT event
\* (by exactly POINTS_TRAIN) or a SALE whose amount reaches the threshold (by
\* exactly POINTS_SALE); every other step leaves it unchanged, so that
\* balance = 2 * sport events + 10 * qualifying sales in every state.
C2_BalanceFollowsEvents ==
    [][\A u \in Users :
          get_points(points', u) - get_points(points, u)
          = POINTS_TRAIN * (SportLogged(log_sport', u) - SportLogged(log_sport, u))
            + POINTS_SALE * (QualSales(log_business', u)
                             - QualSales(log_business, u))]_vars

\* C3: logging a SALE of any amount a under any stored threshold t raises
\* sales_n of collect_stats by exactly 1, and raises the balance by exactly
\* POINTS_SALE when a >= t and leaves it unchanged when a < t.
C3_SaleCountedAndAwarded ==
    [][\A u \in Users :
          (/\ Len(log_business') = Len(log_business) + 1
           /\ LastRow(log_business').kind = "sale"
           /\ LastRow(log_business').user_id = u)
          => LET a == LastRow(log_business').sale_amount
                 t == get_sale_threshold(u)
             IN /\ \A d \in StatDays :
                      collect_stats(u, d)'.sales_n
                      = collect_stats(u, d).sales_n + 1
                /\ get_points(points', u) - get_points(points, u)
                   = IF a >= t THEN POINTS_SALE ELSE 0]_vars

\* C4: an award of pts <= 0 is rejected with InvalidArgument and leaves the
\* balance unchanged.
C4_NonPositiveAwardRejected ==
    (reply.op = "add_points" /\ reply.pts <= 0)
    => /\ reply.raised = "InvalidArgument"
       /\ get_points(points, reply.uid) = reply.before

\* The reduction of the claim over the events of uid logged at or after
\* at - days: occurrences by kind, sums of the payload by kind.
StatsRef(uid, days, at) ==
    LET In(r) == r.user_id = uid /\ r.ts >= at - days * Day
        sp == SelectSeq(log_sport, In)
        bz == SelectSeq(log_business, In)
        si == SelectSeq(log_spirit, In)
        Occ(rows, k) == Len(SelectSeq(rows, LAMBDA r : r.kind = k))
    IN [sport_cnt |-> Len(sp),
        calls |-> Occ(bz, "call"),
        vis |-> Occ(bz, "vis"),
        sales_n |-> Occ(bz, "sale"),
        sales_sum |-> Sum(SelectSeq(bz, LAMBDA r : r.kind = "sale"),
                          "sale_amount"),
        cash_sum |-> Sum(SelectSeq(bz, LAMBDA r : r.kind = "cash"),
                         "cash_in"),
        sleep |-> Sum(SelectSeq(si, LAMBDA r : r.kind = "sleep"),
                      "sleep_hours"),
        med |-> Sum(SelectSeq(si, LAMBDA r : r.kind = "med"),
                    "meditation_min"),
        read |-> Sum(SelectSeq(si, LAMBDA r : r.kind = "read"),
                     "reading_min")]

SummaryFields == {"sport_cnt", "calls", "vis", "sales_n", "sales_sum",
                  "cash_sum", "sleep", "med", "read"}

\* C5: the summary collect_stats returns for a window of W days equals the
\* reduction by event kind over exactly the events with ts >= now - W, the
\* event with ts = now - W included; with no event in the window it is all
\* zeros.
C5_StatsEqualReduction ==
    reply.op = "collect_stats"
    => \A f \in SummaryFields :
          reply.out[f] = StatsRef(reply.uid, reply.days, reply.at)[f]

ExpiredAt(g, at) == at > (g.deadline + 1) * Day

GoalsOf(uid) == {goals[i] : i \in {j \in 1..Len(goals) : goals[j].user_id = uid}}

\* C7: in the answer of claim the eligible list and the pending list share no
\* goal; a goal with now > deadline + 1 day is in neither list and every
\* other goal of the user is in exactly one of them.
C7_ListsDisjoint ==
    reply.op = "claim"
    => LET E == Ids(reply.eligible)
           M == MissingIds(reply)
       IN /\ E \cap M = {}
          /\ Cardinality(E) = Len(reply.eligible)
          /\ Cardinality(M) = Len(reply.missing)
          /\ \A g \in GoalsOf(reply.uid) :
                IF ExpiredAt(g, reply.at) THEN g.id \notin E \cup M
                ELSE g.id \in E \cup M

\* claim answered for a user whose goal is past deadline + 1 day.
C7_Witness ==
    /\ reply.op = "claim"
    /\ \E g \in GoalsOf(reply.uid) : ExpiredAt(g, reply.at)
    /\ RowCount >= 1

Threshold(g) ==
    [sport |-> g.sport_min, business |-> g.business_min, sales |-> g.sales_min,
     spirit |-> g.spirit_min, points |-> g.points_min]

Dims == {"sport", "business", "sales", "spirit", "points"}

\* C8: a goal that is not expired is eligible iff each of the five measured
\* values is at least its threshold; otherwise it is pending and its
\* shortfall names exactly the dimensions whose value is below the threshold,
\* each with the current and the required value.
C8_EligibleIffAllMet ==
    reply.op = "claim"
    => \A i \in 1..Len(reply.measured) :
          LET id == reply.measured[i].id
              m == reply.measured[i].m
              g == CHOOSE x \in GoalsOf(reply.uid) : x.id = id
              t == Threshold(g)
              unmet == {d \in Dims : m[d] < t[d]}
          IN /\ id \in Ids(reply.eligible) <=> unmet = {}
             /\ unmet # {}
                => \E j \in 1..Len(reply.missing) :
                      /\ reply.missing[j].id = id
                      /\ Len(reply.missing[j].miss) = Cardinality(unmet)
                      /\ Ids(reply.missing[j].miss)
                         = {[dim |-> d, cur |-> m[d], req |-> t[d]] : d \in unmet}

\* claim reports a goal with positive thresholds pending, on a log that holds
\* an event of the user.
C8_Witness ==
    /\ reply.op = "claim"
    /\ \E j \in 1..Len(reply.missing) : Len(reply.missing[j].miss) >= 4
    /\ \E i \in 1..Len(reply.measured) :
          \E d \in Dims : reply.measured[i].m[d] >= 1

\* The values of the claim for goal g at instant at: occurrences by kind with
\* created_at <= ts <= deadline, the balance not windowed.
MeasuredRef(g) ==
    LET In(r) == /\ r.user_id = g.user_id
                 /\ g.created_ts <= r.ts
                 /\ r.ts <= g.deadline * Day
        bz == SelectSeq(log_business, In)
        Occ(rows, k) == Len(SelectSeq(rows, LAMBDA r : r.kind = k))
    IN [sport |-> Len(SelectSeq(log_sport, In)),
        business |-> Occ(bz, "call") + Occ(bz, "vis"),
        sales |-> Occ(bz, "sale"),
        spirit |-> Len(SelectSeq(SelectSeq(log_spirit, In),
                             LAMBDA r : r.sleep_hours # 0 \/ r.meditation_min # 0
                                        \/ r.reading_min # 0)),
        points |-> get_points(points, g.user_id)]

\* C9: the values claim measures for a goal are: sport = number of SPORT
\* events, business = CALL events + VISIBILITY events, sales = number of SALE
\* events (a count, not a sum), spirit = number of wellbeing rows with at
\* least one non-zero field, each over created_at <= ts <= deadline, and
\* points = the cumulative balance at the evaluation.
C9_MeasuredValues ==
    reply.op = "claim"
    => \A i \in 1..Len(reply.measured) :
          LET g == CHOOSE x \in GoalsOf(reply.uid) : x.id = reply.measured[i].id
          IN reply.measured[i].m = MeasuredRef(g)

\* C10: a goal that an evaluation finds eligible is not pending at any later
\* evaluation, and a goal that is expired at one evaluation is in neither
\* list at every later one.
C10_EligibleAndExpiredStable ==
    [][\A u \in Users : \A i \in 1..Len(goals) :
          goals[i].user_id = u
          => /\ goals[i].id \in Ids(claim_result(u).eligible)
                => goals[i].id \notin MissingIds(claim_result(u)')
             /\ ExpiredAt(goals[i], now)
                => goals[i].id \notin Ids(claim_result(u)'.eligible)
                                      \cup MissingIds(claim_result(u)')]_vars

\* A goal with a positive threshold is reported eligible at an instant after
\* the one it was created at.
C10_Witness ==
    /\ reply.op = "claim"
    /\ \E g \in GoalsOf(reply.uid) :
          /\ g.id \in Ids(reply.eligible)
          /\ reply.at > g.created_ts
          /\ \E d \in Dims : Threshold(g)[d] >= 1

\* The active jobs of a user, by kind, and the rows of sport_schedule of a
\* user.
SportJobs(q, u) == SelectSeq(q, LAMBDA j : j.name = <<"sport_rem", u>>)
WeeklyJobs(q, u) == SelectSeq(q, LAMBDA j : j.name = <<"weekly", u>>)
EntriesOf(u) == {i \in 1..Len(sport_schedule) : sport_schedule[i].user_id = u}
TypeIds(u) ==
    {sport_types[k].id : k \in {n \in 1..Len(sport_types) :
                                   sport_types[n].user_id = u}}
Registered == {"schedule_sport_jobs", "schedule_all_jobs"}

\* C11: after a call of schedule_sport_jobs for a user, whatever calls and
\* schedule changes came before, the active SPORT_REMINDER jobs of the user
\* are exactly one job per schedule entry stored at the call: every entry
\* has one job, no entry has two and no other job remains.
C11_JobsAreLastRegistration ==
    reply.op \in Registered
    => LET J == SportJobs(jobs, reply.uid)
       IN /\ {J[k].src : k \in 1..Len(J)} = EntriesOf(reply.uid)
          /\ Len(J) = Cardinality(EntriesOf(reply.uid))
          /\ \A k \in 1..Len(J) : J[k].days = sport_schedule[J[k].src].dow

\* C12: in every state no two active SPORT_REMINDER jobs of a user have the
\* same logical trigger: the same activity type, day of week and time of
\* day.
C12_NoDuplicateTrigger ==
    \A i \in 1..Len(jobs), k \in 1..Len(jobs) :
        (/\ i < k
         /\ jobs[i].callback = "remind_sport"
         /\ jobs[k].callback = "remind_sport"
         /\ jobs[i].uid = jobs[k].uid)
        => ~(/\ sport_schedule[jobs[i].src].type_id
                = sport_schedule[jobs[k].src].type_id
             /\ jobs[i].days = jobs[k].days
             /\ jobs[i].hour = jobs[k].hour
             /\ jobs[i].minute = jobs[k].minute)

C14_ClearAllJobs ==
    reply.op = "clear_all_jobs"
    => /\ \A i \in 1..Len(jobs) : jobs[i].uid # reply.uid
       /\ jobs = SelectSeq(reply.before, LAMBDA j : j.uid # reply.uid)

\* clear_all_jobs removed a reminder and a weekly report of the user and
\* another user keeps a job.
C14_Witness ==
    /\ reply.op = "clear_all_jobs"
    /\ SportJobs(reply.before, reply.uid) # <<>>
    /\ WeeklyJobs(reply.before, reply.uid) # <<>>
    /\ jobs # <<>>

\* C15: a user whose notify flag is 0 has no active job: from the disabling
\* of the notifications until they are enabled again no command registers a
\* SPORT_REMINDER or WEEKLY_REPORT job for the user.
C15_DisabledHasNoJob ==
    \A u \in DOMAIN users :
        users[u].notify = 0 => \A i \in 1..Len(jobs) : jobs[i].uid # u

\* C19: in every state every row of sport_schedule, and every active
\* SPORT_REMINDER job, refers to an activity type that exists in sport_types
\* for the same user.
C19_EntriesReferToTypes ==
    /\ \A i \in 1..Len(sport_schedule) :
          sport_schedule[i].type_id \in TypeIds(sport_schedule[i].user_id)
    /\ \A i \in 1..Len(jobs) :
          jobs[i].callback = "remind_sport"
          => sport_schedule[jobs[i].src].type_id \in TypeIds(jobs[i].uid)

\* The timezone stored for a user is missing, empty or not a timezone.
NoStoredTz(u) == u \notin DOMAIN users \/ users[u].tz \notin ValidTz

C18_FiringFailureCaught ==
    reply.op \in {"remind_sport", "send_weekly_report"} => ~reply.raised

\* Everything the program holds or computes for user b: settings, balance,
\* events, goals, activity types, schedule entries, jobs, the summaries and
\* the goal evaluation.
OwnedBy(b) ==
    [settings |-> IF b \in DOMAIN users THEN {users[b]} ELSE {},
     balance |-> IF b \in DOMAIN points THEN {points[b]} ELSE {},
     sport |-> SelectSeq(log_sport, LAMBDA r : r.user_id = b),
     business |-> SelectSeq(log_business, LAMBDA r : r.user_id = b),
     spirit |-> SelectSeq(log_spirit, LAMBDA r : r.user_id = b),
     goals |-> SelectSeq(goals, LAMBDA r : r.user_id = b),
     types |-> SelectSeq(sport_types, LAMBDA r : r.user_id = b),
     schedule |-> SelectSeq(sport_schedule, LAMBDA r : r.user_id = b),
     jobs |-> SelectSeq(jobs, LAMBDA j : j.uid = b),
     summary |-> [d \in StatDays |-> collect_stats(b, d)],
     evaluation |-> claim_result(b)]

\* C20: every step is an operation of one user a that leaves what the program
\* holds for every other user b (events, balance, goals, activity types,
\* schedule entries, settings, jobs) and what it computes for b (summary,
\* goal evaluation) unchanged.
C20_NoSharing ==
    [][\E a \in Users :
          /\ StepOf(a)
          /\ \A b \in Users \ {a} : OwnedBy(b)' = OwnedBy(b)]_vars

\* A user has just registered or cleared the own jobs, or logged, while the
\* other user holds settings, a balance, an event, an activity type, a
\* schedule entry and jobs.
C20_Witness ==
    \E a \in Users :
        /\ reply.op \in {"schedule_all_jobs", "clear_all_jobs",
                          "schedule_sport_jobs"}
        /\ reply.uid = a
        /\ \A b \in Users \ {a} :
              /\ b \in DOMAIN users
              /\ get_points(points, b) > 0
              /\ SelectSeq(log_sport, LAMBDA r : r.user_id = b) # <<>>
              /\ TypeIds(b) # {}
              /\ EntriesOf(b) # {}
              /\ SportJobs(jobs, b) # <<>>
              /\ WeeklyJobs(jobs, b) # <<>>

\* tbl2 holds the rows of tbl, unchanged and in the same places.
KeepsRows(tbl, tbl2) ==
    /\ Len(tbl2) >= Len(tbl)
    /\ \A i \in 1..Len(tbl) : tbl2[i] = tbl[i]

\* C21: the event log is append-only: every step, whatever the command,
\* leaves every row of log_sport, log_business and log_spirit in place, with
\* the same user, timestamp, kind and value.
C21_AppendOnly ==
    [][/\ KeepsRows(log_sport, log_sport')
       /\ KeepsRows(log_business, log_business')
       /\ KeepsRows(log_spirit, log_spirit')]_vars

\* An event logged earlier is still stored after the type it names was
\* replaced and a second event was logged.
C21_Witness ==
    /\ RowCount >= 2
    /\ \E i \in 1..Len(log_sport) :
          \A k \in 1..Len(sport_types) : sport_types[k].id # log_sport[i].type_id

\* C22: awards are add_points calls that run one after another in any order,
\* for any users and amounts; none is lost: each call raises the balance of
\* its user by its amount, so that the balance of every user is the initial
\* balance (0) plus the sum of the amounts awarded to the user.
C22_NoAwardLost ==
    /\ reply.op = "add_points"
       => get_points(points, reply.uid) = reply.before + reply.pts
    /\ \A u \in Users : get_points(points, u) = 0 + awarded[u]

\* The goal lines addgoal_text cannot take: not 8 fields, a threshold that is
\* no integer, or a deadline that is no date.
MalformedLines == {l \in GoalLines : l.nfields # 8 \/ ~l.ints \/ ~l.date}

\* C23: a malformed input (a goal line without 8 fields, with a non-integer
\* threshold or an unparseable deadline, sent while a goal is awaited; an
\* empty list of activity types, sent while the types are awaited) leaves
\* goals, sport_types, sport_schedule and the balances unchanged.
C23_MalformedRejected ==
    [][\A u \in Users :
          (\/ /\ "await_goal" \in user_data[u]
              /\ \E l \in MalformedLines : addgoal_text(u, l)
           \/ /\ "await_sport_types" \in user_data[u]
              /\ "await_tz" \notin user_data[u]
              /\ \E t \in Words : t.parts = <<>> /\ setup_text(u, t))
          => UNCHANGED <<goals, sport_types, sport_schedule, points>>]_vars

\* The stored SALE rows of a user.
SaleRows(u) ==
    Len(SelectSeq(log_business, LAMBDA r : r.user_id = u /\ r.kind = "sale"))

\* C24: in every state, the states after the process stopped between the
\* INSERT of an event and its award included, the balance of a user is at
\* most POINTS_TRAIN * stored SPORT events + POINTS_SALE * stored SALE rows.
C24_NoAwardBeforeEvent ==
    \A u \in Users :
        get_points(points, u)
        <= POINTS_TRAIN * SportLogged(log_sport, u) + POINTS_SALE * SaleRows(u)

\* The process stopped after the INSERT and before add_points: a registered
\* user holds an event without its points.
C24_Witness ==
    /\ reply.op = "crash"
    /\ reply.done = {"insert"}
    /\ reply.uid \in DOMAIN points
    /\ get_points(points, reply.uid)
       < POINTS_TRAIN * SportLogged(log_sport, reply.uid)
         + POINTS_SALE * SaleRows(reply.uid)

\* C25: a call of schedule_sport_jobs, whether it returns or raises, leaves
\* the reminder jobs of the user either as they were before the call or as
\* exactly one job per stored schedule entry; and when setup_text answers
\* that it could not parse the schedule line, the step stored no entry.
C25_RegistrationAllOrNothing ==
    [][reply'.op \in Registered
       => LET u == reply'.uid
              J == SportJobs(jobs', u)
              E == {i \in 1..Len(sport_schedule') :
                      sport_schedule'[i].user_id = u}
          IN /\ \/ J = SportJobs(jobs, u)
                \/ /\ {J[k].src : k \in 1..Len(J)} = E
                   /\ Len(J) = Cardinality(E)
             /\ (reply'.op = "schedule_sport_jobs" /\ reply'.raised)
                => sport_schedule' = sport_schedule]_vars

\* C26: after an operation that sets the notify flag of a user to 1 (/notify,
\* the setup toggle, the answer "yes" of the onboarding; in SpecOnboard no
\* other operation calls schedule_all_jobs), whatever schedule entries are
\* stored, the flag is 1 and the user has exactly one WEEKLY_REPORT job.
C26_EnabledHasWeeklyJob ==
    (reply.op = "schedule_all_jobs" /\ reply.uid \in DOMAIN users)
        => /\ users[reply.uid].notify = 1
           /\ Len(WeeklyJobs(jobs, reply.uid)) = 1

\* The state after an accepted answer, in the order of the onboarding.
OnbNext(st) ==
    CASE st = "ONB_TZ" -> "ONB_TYPES"
      [] st = "ONB_TYPES" -> "ONB_SCHED"
      [] st = "ONB_SCHED" -> "ONB_THRESH"
      [] st = "ONB_THRESH" -> "ONB_NOTIFY"
      [] OTHER -> "None"
\* The answers onboard_text rejects in a state, and those that move on.
OnbRejected(st, t) ==
    \/ st = "ONB_TZ" /\ ~t.tzok
    \/ st = "ONB_TYPES" /\ t.parts = <<>>
    \/ st = "ONB_SCHED" /\ t.str # "gotovo" /\ ~t.line.ok
    \/ st = "ONB_THRESH" /\ ~t.isnum
OnbAdvances(st, t) ==
    \/ st = "ONB_TZ" /\ t.tzok
    \/ st = "ONB_TYPES" /\ t.parts # <<>>
    \/ st = "ONB_SCHED" /\ t.str = "gotovo"
    \/ st = "ONB_THRESH" /\ t.isnum
    \/ st = "ONB_NOTIFY"

\* C29: in an onboarding started by /onboard, an answer taken by onboard_text
\* moves the state one step on in the order timezone, types, schedule,
\* threshold, notifications, finished when it is accepted (the schedule step
\* on "gotovo" only, a schedule line keeps the state), leaves the state and
\* the stored settings as they were when it is rejected, and the answer to
\* the notifications question always clears the state.
C29_OnboardingInOrder ==
    [][\A u \in Users, t \in OnbTexts :
          LET st == onb_state(u)
          IN (st # "None" /\ onboard_text(u, t))
             => /\ OnbAdvances(st, t)
                   => (user_data'[u] \cap OnbStates)
                        = (IF OnbNext(st) = "None" THEN {} ELSE {OnbNext(st)})
                /\ ~OnbAdvances(st, t)
                   => (user_data'[u] \cap OnbStates) = {st}
                /\ OnbRejected(st, t)
                   => UNCHANGED <<users, sport_types, sport_schedule, jobs>>
      ]_vars

\* C28: with the handlers registered as in build_app, a non-command text of
\* a user for whom one kind of input is pending (and no onboarding runs) is
\* taken by the handler that reads this flag: log_text for await_sale,
\* addgoal_text for await_goal, setup_text for await_threshold, await_tz and
\* await_schedule.
C28_TextReachesFlagHandler ==
    \A u \in Users, m \in Messages :
       LET F == user_data[u]
       IN /\ F = {"await_sale"}
             => ENABLED (dispatch_text(u, m) /\ log_text(u, m.text))
          /\ (F = {"await_goal"} /\ Len(goals) < MaxGoals)
             => ENABLED (dispatch_text(u, m) /\ addgoal_text(u, m.goal))
          /\ (F # {} /\ F \subseteq {"await_threshold", "await_tz",
                                      "await_schedule"})
             => ENABLED (dispatch_text(u, m) /\ setup_text(u, m.text))

\* The kind of the row log_text stores for a flag.
KindOf(f) ==
    CASE f = "await_cash" -> "cash"
      [] f = "await_sale" -> "sale"
      [] f = "await_sleep" -> "sleep"
      [] f = "await_med" -> "med"
      [] OTHER -> "read"

\* C27: when a user chooses a kind of typed input from the log menu, the
\* next value the user types is taken for the kind chosen most recently; the
\* step that takes a value appends exactly one event, of that kind and of
\* that user, and leaves none of await_cash, await_sale, await_sleep,
\* await_med, await_read pending for the user.
C27_ValueGoesToLastChoice ==
    [][\A u \in Users :
          /\ \A f \in LogFlags :
                (f \notin user_data[u] /\ f \in user_data'[u])
                   => LogFlag(u)' = f
          /\ (user_data'[u] # user_data[u] /\ user_data'[u] \subseteq user_data[u])
             => LET row == IF Len(log_business') > Len(log_business)
                           THEN LastRow(log_business')
                           ELSE LastRow(log_spirit')
                IN /\ RowCount' = RowCount + 1
                   /\ row.user_id = u
                   /\ row.kind = KindOf(LogFlag(u))
                   /\ user_data'[u] \cap LogFlags = {}
      ]_vars
====
